---- MODULE Spec2Model ----
(***************************************************************************)
(* Model of analyze_sequence.py: the sliding-window statistics engine      *)
(* (calculate_stats), the sequence loader (read_sequence_file) and the     *)
(* validation / reporting pipeline of main.                                *)
(*                                                                         *)
(* Strings are sequences of one-character strings.  Python floats that     *)
(* result from dividing two small integers are kept as reduced fractions   *)
(* <<numerator, denominator>> (denominator > 0): two such quotients are    *)
(* equal as floats exactly when the reduced fractions are equal.           *)
(* An absent optional argument (argparse's None) is <<>>, a given value v  *)
(* is <<v>>.  --window and --step are drawn from small ranges that include *)
(* zero and negative values (argparse accepts any int); their defaults,    *)
(* 100 and 25, are one such pair and are not drawn.  Failures of the file  *)
(* system while reading or writing are not modelled.                       *)
(***************************************************************************)
EXTENDS Integers, Sequences, FiniteSets, TLC

(* ---------------------------- bounds ----------------------------------- *)

\* largest --window drawn; --step is drawn up to MaxWindow + 1
MaxWindow == 4
\* largest --start / --end drawn
MaxPos == 4
\* largest number of lines of an input file
MaxLines == 2

(* ---------------------------- inputs ----------------------------------- *)

None == <<>>

Some(v) == <<v>>

\* lines an input file is made of: a FASTA header, a FASTQ read name, a
\* FASTQ separator, and sequence lines (one with surrounding blanks, one
\* with a lower-case symbol)
Lines ==
    { <<">", "G">>, <<"@", "T">>, <<"+">>,
      <<"G", "T">>, <<"T", "A", "G">>, <<" ", "g", "G", " ">> }

\* the file of the documented example: one header, the sequence "GGTTAAGG"
\* on two lines
ExampleFile == << <<">", "I", "X">>, <<"G", "G", "T", "T">>, <<"A", "A", "G", "G">> >>

ExampleSequence == <<"G", "G", "T", "T", "A", "A", "G", "G">>

Files ==
    UNION { [1..n -> Lines] : n \in 0..MaxLines } \cup { ExampleFile }

WindowArgs == -1..MaxWindow

StepArgs == -1..(MaxWindow + 1)

PosArgs == { None } \cup { Some(v) : v \in -1..MaxPos }

(* ------------------------ Python primitives ---------------------------- *)

Max(a, b) == IF a >= b THEN a ELSE b

Min(a, b) == IF a <= b THEN a ELSE b

RECURSIVE Gcd(_, _)
Gcd(a, b) == IF b = 0 THEN a ELSE Gcd(b, a % b)

Abs(a) == IF a < 0 THEN -a ELSE a

\* a / b for integers a, b with b # 0 (true division), as a reduced fraction
PyTrueDiv(a, b) ==
    LET g == Gcd(Abs(a), Abs(b))
        s == IF b < 0 THEN -1 ELSE 1
    IN  << (s * a) \div g, (s * b) \div g >>

\* the integer 0 (equal, as a number, to the float 0.0)
PyZero == << 0, 1 >>

\* list(range(start, stop, step)) for step # 0
RECURSIVE PyRange(_, _, _)
PyRange(start, stop, step) ==
    IF (step > 0 /\ start < stop) \/ (step < 0 /\ start > stop)
    THEN << start >> \o PyRange(start + step, stop, step)
    ELSE << >>

\* s[a:b]: negative indices count from the end, both are clamped to 0..len(s)
PySlice(s, a, b) ==
    LET n  == Len(s)
        lo == IF a < 0 THEN Max(a + n, 0) ELSE Min(a, n)
        hi == IF b < 0 THEN Max(b + n, 0) ELSE Min(b, n)
    IN  IF lo < hi THEN SubSeq(s, lo + 1, hi) ELSE << >>

\* s.count(ch) for a one-character ch
RECURSIVE PyCount(_, _)
PyCount(s, ch) ==
    IF s = << >> THEN 0
    ELSE (IF Head(s) = ch THEN 1 ELSE 0) + PyCount(Tail(s), ch)

\* line.strip(): blanks removed at both ends
RECURSIVE LStrip(_)
LStrip(line) ==
    IF line # << >> /\ Head(line) = " " THEN LStrip(Tail(line)) ELSE line

RECURSIVE RStrip(_)
RStrip(line) ==
    IF line # << >> /\ line[Len(line)] = " "
    THEN RStrip(SubSeq(line, 1, Len(line) - 1))
    ELSE line

Strip(line) == RStrip(LStrip(line))

StartsWith(line, ch) == line # << >> /\ Head(line) = ch

(* ------------------------ read_sequence_file --------------------------- *)

IsMarkerLine(line) ==
    StartsWith(line, ">") \/ StartsWith(line, "@") \/ StartsWith(line, "+")

RECURSIVE read_sequence_file(_)
read_sequence_file(f) ==
    IF f = << >> THEN << >>
    ELSE (IF IsMarkerLine(Head(f)) THEN << >> ELSE Strip(Head(f)))
         \o read_sequence_file(Tail(f))

(* --------------------------- calculate_stats --------------------------- *)

\* a stop one too small: the last full window is lost
RangeStop_NoPlusOne(seq_length, window_size) == seq_length - window_size

\* a stop that ignores the window: trailing partial windows are visited
RangeStop_IgnoresWindow(seq_length, window_size) == seq_length

\* line 40: the stop of range(0, seq_length - window_size + 1, step_size)
RangeStop(seq_length, window_size) == seq_length - window_size + 1

\* line 41: window = sequence[i:i + window_size]
Window(sequence, i, window_size) == PySlice(sequence, i, i + window_size)

\* the parentheses lost: g_count + t_count / window_size
GtTotal_Precedence(g_count, t_count, window_size) ==
    PyTrueDiv(g_count * window_size + t_count, window_size)

\* line 46: gt_total = (g_count + t_count) / window_size
GtTotal(g_count, t_count, window_size) ==
    PyTrueDiv(g_count + t_count, window_size)

\* the ratio inverted: t_count / g_count, guarded on g_count
GtRatio_Inverted(g_count, t_count) ==
    IF g_count > 0 THEN PyTrueDiv(t_count, g_count) ELSE PyZero

\* line 48: g_t_ratio = g_count / t_count if t_count > 0 else 0
GtRatio(g_count, t_count) ==
    IF t_count > 0 THEN PyTrueDiv(g_count, t_count) ELSE PyZero

\* the midpoint rounded up instead of down
Midpoint_RoundedUp(i, window_size) == i + ((window_size + 1) \div 2)

\* line 50: i + window_size // 2
Midpoint(i, window_size) == i + (window_size \div 2)

\* The result of a call: the three returned lists, the exception the call
\* raised instead ("none" when it returned), and the loop's g_count and
\* t_count of every iteration.
NoStats ==
    [ raised |-> "none", positions |-> << >>, gt_totals |-> << >>,
      g_t_ratios |-> << >>, g_counts |-> << >>, t_counts |-> << >> ]

\* lines 40-52: the loop over the window starts still to visit; acc holds
\* the lists built so far
RECURSIVE StatsLoop(_, _, _, _)
StatsLoop(sequence, window_size, starts, acc) ==
    IF starts = << >> THEN acc
    ELSE IF window_size = 0
    THEN [ NoStats EXCEPT !.raised = "ZeroDivisionError" ]
    ELSE
      LET i == Head(starts)
          window == Window(sequence, i, window_size)
          g_count == PyCount(window, "G")
          t_count == PyCount(window, "T")
          gt_total == GtTotal(g_count, t_count, window_size)
          g_t_ratio == GtRatio(g_count, t_count)
      IN  StatsLoop(sequence, window_size, Tail(starts),
            [ acc EXCEPT
                !.positions  = Append(@, Midpoint(i, window_size)),
                !.gt_totals  = Append(@, gt_total),
                !.g_t_ratios = Append(@, g_t_ratio),
                !.g_counts   = Append(@, g_count),
                !.t_counts   = Append(@, t_count) ])

\* lines 33-54; range() raises ValueError for a step of zero
calculate_stats(sequence, window_size, step_size) ==
    LET seq_length == Len(sequence)
    IN  IF step_size = 0
        THEN [ NoStats EXCEPT !.raised = "ValueError" ]
        ELSE StatsLoop(sequence, window_size,
                       PyRange(0, RangeStop(seq_length, window_size), step_size),
                       NoStats)

(* ------------------------------- main ---------------------------------- *)

\* line 64
StepExceedsWindow(step, window) == step > window

\* line 72: start_pos = (args.start - 1) if args.start is not None else 0
ConvertStart(start) == IF start # None THEN start[1] - 1 ELSE 0

\* line 73: end_pos = args.end if args.end is not None else len(sequence)
ConvertEnd(end, sequence) == IF end # None THEN end[1] ELSE Len(sequence)

\* line 75
StartIsNegative(start_pos) == start_pos < 0

\* the end check off by one: an end equal to the length is refused
EndExceedsLength_Inclusive(end_pos, sequence) == end_pos >= Len(sequence)

\* line 78
EndExceedsLength(end_pos, sequence) == end_pos > Len(sequence)

\* the order check off by one: an empty range start_pos = end_pos passes
StartNotBeforeEnd_Strict(start_pos, end_pos) == start_pos > end_pos

\* line 81
StartNotBeforeEnd(start_pos, end_pos) == start_pos >= end_pos

\* line 86: sequence = sequence[start_pos:end_pos]
Subset(sequence, start_pos, end_pos) == PySlice(sequence, start_pos, end_pos)

\* positions shifted by the 1-based start instead of the 0-based one
AdjustPositions_OneBased(positions, start_pos) ==
    [ k \in 1..Len(positions) |-> positions[k] + start_pos + 1 ]

\* line 92: positions = [p + start_pos for p in positions]
AdjustPositions(positions, start_pos) ==
    [ k \in 1..Len(positions) |-> positions[k] + start_pos ]

\* lines 100, 125: the name of an output file
OutputName(window, step, start_pos, end_pos, ext) ==
    << "window", window, "step", step, "pos", start_pos + 1, end_pos, ext >>

VARIABLES
    pc,          \* the statement of main that runs next
    args,        \* the parsed command line: window, step, start, end
    file_exists, \* input_file.exists(), once checked
    file,        \* the lines of the input file, once read
    sequence,    \* main's sequence
    start_pos,   \* main's start_pos
    end_pos,     \* main's end_pos
    stats,       \* the last result of calculate_stats
    positions,   \* main's positions
    calls,       \* how many times calculate_stats was invoked
    stderr,      \* the error messages printed, in order
    stdout,      \* the lines printed to standard output, in order
    written,     \* the output files written, in order: <<kind, name, rows>>
    exit_code    \* the process's exit status, -1 while it runs

vars ==
    << pc, args, file_exists, file, sequence, start_pos, end_pos, stats,
       positions, calls, stderr, stdout, written, exit_code >>

Init ==
    /\ pc = "parse_args"
    /\ args = [ window |-> 0, step |-> 0, start |-> None, end |-> None ]
    /\ file_exists = FALSE
    /\ file = << >>
    /\ sequence = << >>
    /\ start_pos = 0
    /\ end_pos = 0
    /\ stats = NoStats
    /\ positions = << >>
    /\ calls = 0
    /\ stderr = << >>
    /\ stdout = << >>
    /\ written = << >>
    /\ exit_code = -1

\* sys.exit(1) after an error message
Fail(msg) ==
    /\ stderr' = Append(stderr, msg)
    /\ exit_code' = 1
    /\ pc' = "exited"

\* line 57: args = parse_args()
ParseArgs ==
    /\ pc = "parse_args"
    /\ \E w \in WindowArgs, s \in StepArgs, a \in PosArgs, b \in PosArgs :
          args' = [ window |-> w, step |-> s, start |-> a, end |-> b ]
    /\ pc' = "check_file"
    /\ UNCHANGED << file_exists, file, sequence, start_pos, end_pos, stats,
                    positions, calls, stderr, stdout, written, exit_code >>

\* lines 60-62
CheckFile ==
    /\ pc = "check_file"
    /\ \E e \in BOOLEAN :
          /\ file_exists' = e
          /\ IF ~e
             THEN Fail("file does not exist")
             ELSE pc' = "check_step" /\ UNCHANGED << stderr, exit_code >>
    /\ UNCHANGED << args, file, sequence, start_pos, end_pos, stats,
                    positions, calls, stdout, written >>

\* lines 64-66
CheckStep ==
    /\ pc = "check_step"
    /\ IF StepExceedsWindow(args.step, args.window)
       THEN Fail("step size cannot exceed window size")
       ELSE pc' = "read" /\ UNCHANGED << stderr, exit_code >>
    /\ UNCHANGED << args, file_exists, file, sequence, start_pos, end_pos,
                    stats, positions, calls, stdout, written >>

\* lines 69-73
ReadSequence ==
    /\ pc = "read"
    /\ \E f \in Files :
          /\ file' = f
          /\ sequence' = read_sequence_file(f)
    /\ start_pos' = ConvertStart(args.start)
    /\ end_pos' = ConvertEnd(args.end, sequence')
    /\ pc' = "validate"
    /\ UNCHANGED << args, file_exists, stats, positions, calls, stderr,
                    stdout, written, exit_code >>

\* lines 75-83
ValidateRange ==
    /\ pc = "validate"
    /\ IF StartIsNegative(start_pos)
       THEN Fail("start position must be positive")
       ELSE IF EndExceedsLength(end_pos, sequence)
       THEN Fail("end position exceeds sequence length")
       ELSE IF StartNotBeforeEnd(start_pos, end_pos)
       THEN Fail("start position must be less than end position")
       ELSE pc' = "subset" /\ UNCHANGED << stderr, exit_code >>
    /\ UNCHANGED << args, file_exists, file, sequence, start_pos, end_pos,
                    stats, positions, calls, stdout, written >>

\* line 86
SubsetSequence ==
    /\ pc = "subset"
    /\ sequence' = Subset(sequence, start_pos, end_pos)
    /\ pc' = "calculate"
    /\ UNCHANGED << args, file_exists, file, start_pos, end_pos, stats,
                    positions, calls, stderr, stdout, written, exit_code >>

\* line 89; an exception raised by the call is not caught: the interpreter
\* prints the traceback and the process ends with status 1
CalculateStats ==
    /\ pc = "calculate"
    /\ LET result == calculate_stats(sequence, args.window, args.step)
       IN  /\ stats' = result
           /\ IF result.raised = "none"
              THEN /\ positions' = result.positions
                   /\ pc' = "adjust"
                   /\ UNCHANGED << stderr, exit_code >>
              ELSE /\ positions' = positions
                   /\ stderr' = Append(stderr, "Traceback")
                   /\ exit_code' = 1
                   /\ pc' = "crashed"
    /\ calls' = calls + 1
    /\ UNCHANGED << args, file_exists, file, sequence, start_pos, end_pos,
                    stdout, written >>

\* line 92
Adjust ==
    /\ pc = "adjust"
    /\ positions' = AdjustPositions(positions, start_pos)
    /\ pc' = "write_csv"
    /\ UNCHANGED << args, file_exists, file, sequence, start_pos, end_pos,
                    stats, calls, stderr, stdout, written, exit_code >>

\* the rows of the table handed to the reporter
Table ==
    [ k \in 1..Len(positions) |->
        << positions[k], stats.gt_totals[k], stats.g_t_ratios[k] >> ]

\* lines 95-101
WriteCsv ==
    /\ pc = "write_csv"
    /\ written' = Append(written,
          << "csv",
             OutputName(args.window, args.step, start_pos, end_pos, ".csv"),
             Table >>)
    /\ pc' = "save_plot"
    /\ UNCHANGED << args, file_exists, file, sequence, start_pos, end_pos,
                    stats, positions, calls, stderr, stdout, exit_code >>

\* lines 104-127
SavePlot ==
    /\ pc = "save_plot"
    /\ written' = Append(written,
          << "plot",
             OutputName(args.window, args.step, start_pos, end_pos, ".png"),
             Table >>)
    /\ pc' = "report"
    /\ UNCHANGED << args, file_exists, file, sequence, start_pos, end_pos,
                    stats, positions, calls, stderr, stdout, exit_code >>

\* lines 129-131, then the interpreter exits with status 0
Report ==
    /\ pc = "report"
    /\ stdout' = << "Analysis complete. Results saved to:",
                    written[1][2], written[2][2] >>
    /\ exit_code' = 0
    /\ pc' = "exited"
    /\ UNCHANGED << args, file_exists, file, sequence, start_pos, end_pos,
                    stats, positions, calls, stderr, written >>

Next ==
    \/ ParseArgs
    \/ CheckFile
    \/ CheckStep
    \/ ReadSequence
    \/ ValidateRange
    \/ SubsetSequence
    \/ CalculateStats
    \/ Adjust
    \/ WriteCsv
    \/ SavePlot
    \/ Report

Spec == Init /\ [][Next]_vars

(* ------------------------ vocabulary of the claims --------------------- *)

\* main has ended: by sys.exit(1), by falling off its end, or by an
\* uncaught exception
Terminated == pc \in { "exited", "crashed" }

FatalError == pc = "exited" /\ exit_code = 1

Succeeded == pc = "exited" /\ exit_code = 0

\* calculate_stats was invoked and returned its three lists
Returned == calls > 0 /\ stats.raised = "none"

\* main has replaced positions by the adjusted ones
Adjusted == pc \in { "write_csv", "save_plot", "report" } \/ Succeeded

W == args.window

S == args.step

ValidWS == W >= 1 /\ 1 <= S /\ S <= W

\* the sequence as loaded from the file, before the subrange is cut
Loaded == read_sequence_file(file)

StartGiven == args.start # None

EndGiven == args.end # None

\* the 0-based offset of the analysed range in the loaded sequence
Offset == IF StartGiven THEN args.start[1] - 1 ELSE 0

\* the exclusive end of the analysed range
Limit == IF EndGiven THEN args.end[1] ELSE Len(Loaded)

\* the start index of the k-th window (k = 1, 2, ...)
StartOf(k) == (k - 1) * S

\* direct counting: how many of the symbols of s at the indices in J are ch
Occurrences(s, J, ch) == Cardinality({ j \in J : s[j] = ch })

\* the 1-based indices of s that s[a:b] selects
SliceIndices(s, a, b) ==
    LET n  == Len(s)
        lo == IF a < 0 THEN (IF a + n < 0 THEN 0 ELSE a + n)
                       ELSE (IF a > n THEN n ELSE a)
        hi == IF b < 0 THEN (IF b + n < 0 THEN 0 ELSE b + n)
                       ELSE (IF b > n THEN n ELSE b)
    IN  { j \in 1..n : lo < j /\ j <= hi }

(* ------------------------------- C1 ------------------------------------ *)

\* the number of rows the specification promises for a sequence of length n
ExpectedRows(n) == IF n >= W THEN ((n - W) \div S) + 1 ELSE 0

\* C1: for a window size W >= 1 and a step 1 <= S <= W, calculate_stats
\* raises nothing and returns three lists of the same length R, where
\* R = floor((N - W) / S) + 1 when N >= W and R = 0 when N < W.
C1_RowCount ==
    (calls > 0 /\ ValidWS) =>
        /\ stats.raised = "none"
        /\ Len(stats.positions) = ExpectedRows(Len(sequence))
        /\ Len(stats.gt_totals) = ExpectedRows(Len(sequence))
        /\ Len(stats.g_t_ratios) = ExpectedRows(Len(sequence))

\* a call with valid W and S, several rows, and (N - W) not a multiple of S
C1_Witness ==
    /\ calls > 0 /\ ValidWS
    /\ Len(sequence) >= W
    /\ (Len(sequence) - W) % S # 0
    /\ Len(stats.positions) >= 2

(* ------------------------------- C2 ------------------------------------ *)

\* C2: in every row calculate_stats returns, with G and T the numbers of
\* literal 'G' and 'T' in the row's window sequence[i : i+W], metricB is 0
\* when T = 0 and is exactly G / T otherwise.
C2_RatioGuard ==
    Returned =>
        \A k \in 1..Len(stats.g_t_ratios) :
            LET J == SliceIndices(sequence, StartOf(k), StartOf(k) + W)
                G == Occurrences(sequence, J, "G")
                T == Occurrences(sequence, J, "T")
                b == stats.g_t_ratios[k]
            IN  /\ stats.g_counts[k] = G
                /\ stats.t_counts[k] = T
                /\ T = 0 => b = << 0, 1 >>
                /\ T > 0 => (b[2] > 0 /\ b[1] * T = G * b[2])

\* a call that returned a row without any T but with a G, and a row whose
\* ratio is the proper fraction 1/2
C2_Witness ==
    /\ Returned
    /\ \E k \in 1..Len(stats.g_t_ratios) :
          stats.t_counts[k] = 0 /\ stats.g_counts[k] > 0
    /\ \E k \in 1..Len(stats.g_t_ratios) :
          stats.t_counts[k] = 2 /\ stats.g_counts[k] = 1
          /\ stats.g_t_ratios[k] = << 1, 2 >>

(* ------------------------------- C3 ------------------------------------ *)

\* C3: for valid W and S the k-th row (k = 0, 1, ...) has position
\* k*S + W // 2, consecutive positions differ by S, and they still differ by
\* S (each one shifted by the subrange start) after main has adjusted them.
C3_Positions ==
    (Returned /\ ValidWS) =>
        /\ \A k \in 1..Len(stats.positions) :
              stats.positions[k] = StartOf(k) + (W \div 2)
        /\ \A k \in 1..(Len(stats.positions) - 1) :
              stats.positions[k + 1] - stats.positions[k] = S
        /\ Adjusted =>
              /\ Len(positions) = Len(stats.positions)
              /\ \A k \in 1..Len(positions) :
                    positions[k] = StartOf(k) + (W \div 2) + Offset
              /\ \A k \in 1..(Len(positions) - 1) :
                    positions[k + 1] - positions[k] = S

\* a finished run on a subrange not starting at 1, an odd window, three or
\* more rows
C3_Witness ==
    /\ Succeeded /\ ValidWS
    /\ W % 2 = 1 /\ W > 1
    /\ Offset > 0
    /\ Len(positions) >= 3

(* ------------------------------- C4 ------------------------------------ *)

\* the 1-based, inclusive range the user selected
FirstBase == IF StartGiven THEN args.start[1] ELSE 1

LastBase == IF EndGiven THEN args.end[1] ELSE Len(Loaded)

\* C4: for start and end that pass validation, the rows main reports are
\* those calculate_stats returns on the raw subsequence of bases start..end
\* alone: the same metricA and metricB, every position increased by
\* start - 1.
C4_SubrangeRoundTrip ==
    Adjusted =>
        LET raw == calculate_stats(SubSeq(Loaded, FirstBase, LastBase), W, S)
            rows == [ k \in 1..Len(raw.positions) |->
                        << raw.positions[k] + (FirstBase - 1),
                           raw.gt_totals[k], raw.g_t_ratios[k] >> ]
        IN  /\ raw.raised = "none"
            /\ Table = rows
            /\ \A f \in 1..Len(written) : written[f][3] = rows

\* a finished run on a proper inner subrange that reported rows
C4_Witness ==
    /\ Succeeded
    /\ StartGiven /\ EndGiven
    /\ args.start[1] = 3 /\ args.end[1] < Len(Loaded)
    /\ Len(written) = 2
    /\ Len(written[1][3]) >= 2
    /\ written[1][3][1][1] = 2 + stats.positions[1]

(* ------------------------------- C5 ------------------------------------ *)

\* the five error conditions, stated on the command line, the file system
\* and the loaded sequence
FileMissing == pc \notin { "parse_args", "check_file" } /\ ~file_exists

StepTooLarge == pc # "parse_args" /\ S > W

StartBelowOne == Offset < 0

EndBeyondLength == Limit > Len(Loaded)

EmptyRange == Offset >= Limit

AnyInputError ==
    FileMissing \/ StepTooLarge \/ StartBelowOne \/ EndBeyondLength \/ EmptyRange

\* the kinds of the output files written so far, in order
WrittenKinds == [ f \in 1..Len(written) |-> written[f][1] ]

\* C5: when the input file is missing, or step > window, or start - 1 < 0,
\* or end > length, or start - 1 >= end, main prints an error and exits
\* with a non-zero status before calculate_stats is invoked and before any
\* output file is written; when none holds and nothing else fails, the CSV
\* is written, then the plot, then the run exits successfully.
\* (The last conjunct is progress: a run that has not ended can take its
\* next step.  CalculateStats has no guard but pc = "calculate".)
C5_EagerValidation ==
    /\ FatalError =>
          /\ Len(stderr) = 1
          /\ calls = 0 /\ written = << >> /\ stdout = << >>
          /\ AnyInputError
    /\ (calls > 0 \/ written # << >> \/ pc \in { "subset", "calculate" }) =>
          ~AnyInputError
    /\ (Terminated /\ AnyInputError) => FatalError
    /\ (Terminated /\ ~AnyInputError /\ pc # "crashed") =>
          /\ Succeeded
          /\ calls = 1
          /\ WrittenKinds = << "csv", "plot" >>
          /\ stderr = << >>
    /\ WrittenKinds \in { << >>, << "csv" >>, << "csv", "plot" >> }
    /\ (pc = "report" \/ Succeeded) => WrittenKinds = << "csv", "plot" >>
    /\ ~Terminated => (pc = "calculate" \/ ENABLED Next)

\* a run whose only fault is an empty range, ended by the fatal error
C5_Witness ==
    /\ FatalError
    /\ file_exists /\ ~StepTooLarge /\ ~StartBelowOne /\ ~EndBeyondLength
    /\ EmptyRange
    /\ Len(Loaded) > 0

(* ------------------------------- C6 ------------------------------------ *)

\* C6: W >= 1 and 1 <= S <= W are enforced before windowing begins:
\* whenever main invokes calculate_stats the arguments satisfy them, and a
\* run whose window or step violates them (step = 0, a negative step,
\* window = 0, a negative window) is rejected before the engine runs.
C6_ConstraintsEnforced == calls > 0 => ValidWS

(* ------------------------------- C7 ------------------------------------ *)

\* C7 as claimed: every run with a user-supplied start >= end (start = 5,
\* end = 5 included) ends in the fatal validation error and produces no
\* output.
C7_StartEqualEndFatal ==
    (StartGiven /\ EndGiven /\ args.start[1] >= args.end[1]) =>
        /\ calls = 0
        /\ written = << >>
        /\ Terminated => FatalError

\* C7 as amended: every run with a user-supplied start > end is fatal and
\* produces no output, while start = end inside the sequence passes
\* validation and selects the single base at that position.
C7_StartAfterEndFatal ==
    /\ (StartGiven /\ EndGiven /\ args.start[1] > args.end[1]) =>
          /\ calls = 0
          /\ written = << >>
          /\ Terminated => FatalError
    /\ ( /\ StartGiven /\ EndGiven /\ args.start[1] = args.end[1]
         /\ file_exists /\ S <= W
         /\ 1 <= args.start[1] /\ args.end[1] <= Len(Loaded)
         /\ Terminated ) =>
          /\ ~FatalError
          /\ calls = 1
          /\ sequence = << Loaded[args.start[1]] >>

\* start > end, everything else in order: ended by the fatal error
C7_Witness ==
    /\ FatalError
    /\ StartGiven /\ EndGiven /\ args.start[1] > args.end[1]
    /\ file_exists /\ S <= W
    /\ 1 <= args.end[1] /\ args.start[1] <= Len(Loaded)
    /\ stderr = << "start position must be less than end position" >>

(* ------------------------------- C8 ------------------------------------ *)

\* C8: for valid W and S every row is computed from a window of exactly W
\* symbols, its counts satisfy 0 <= G + T <= W, so 0 <= metricA <= 1 and
\* metricB >= 0.
C8_FullWindows ==
    (Returned /\ ValidWS) =>
        \A k \in 1..Len(stats.positions) :
            LET i == stats.positions[k] - (W \div 2)
                a == stats.gt_totals[k]
                b == stats.g_t_ratios[k]
            IN  /\ 0 <= i /\ i + W <= Len(sequence)
                /\ Len(Window(sequence, i, W)) = W
                /\ 0 <= stats.g_counts[k] + stats.t_counts[k]
                /\ stats.g_counts[k] + stats.t_counts[k] <= W
                /\ a[2] > 0 /\ 0 <= a[1] /\ a[1] <= a[2]
                /\ a[1] * W = (stats.g_counts[k] + stats.t_counts[k]) * a[2]
                /\ b[2] > 0 /\ 0 <= b[1]

\* a call whose last window ends before the end of the sequence (a partial
\* window would fit behind it), with a row of metricA = 1 and a row of
\* metricA = 1/2
C8_Witness ==
    /\ Returned /\ ValidWS
    /\ Len(stats.positions) >= 2
    /\ StartOf(Len(stats.positions)) + W < Len(sequence)
    /\ \E k \in 1..Len(stats.positions) : stats.gt_totals[k] = << 1, 1 >>
    /\ \E k \in 1..Len(stats.positions) : stats.gt_totals[k] = << 1, 2 >>

(* ------------------------------- C9 ------------------------------------ *)

OnExample == calls > 0 /\ sequence = ExampleSequence /\ W = 4 /\ S = 2

\* C9 as claimed: on "GGTTAAGG" with W = 4 and S = 2 there are exactly three
\* rows, for the starts 0, 2, 4; the first has G = 2, T = 2, metricA = 1.0,
\* metricB = 1.0, position 2; the second window has G = 1, T = 2.
C9_ExampleAsDocumented ==
    OnExample =>
        /\ stats.raised = "none"
        /\ Len(stats.positions) = 3
        /\ \A k \in 1..3 : stats.positions[k] - (W \div 2) = 2 * (k - 1)
        /\ stats.g_counts[1] = 2 /\ stats.t_counts[1] = 2
        /\ stats.gt_totals[1] = << 1, 1 >>
        /\ stats.g_t_ratios[1] = << 1, 1 >>
        /\ stats.positions[1] = 2
        /\ stats.g_counts[2] = 1 /\ stats.t_counts[2] = 2

\* C9 as amended: the same, but the second window "TTAA" has G = 0, T = 2
\* (metricA = 0.5, metricB = 0); the third, "AAGG", has G = 2, T = 0
\* (metricA = 0.5, metricB = 0 by the zero guard).
C9_ExampleByCounting ==
    OnExample =>
        /\ stats.raised = "none"
        /\ stats.positions = << 2, 4, 6 >>
        /\ stats.g_counts = << 2, 0, 2 >>
        /\ stats.t_counts = << 2, 2, 0 >>
        /\ stats.gt_totals = << << 1, 1 >>, << 1, 2 >>, << 1, 2 >> >>
        /\ stats.g_t_ratios = << << 1, 1 >>, << 0, 1 >>, << 0, 1 >> >>
        /\ \A k \in 1..3 :
              LET J == { j \in 1..8 : 2 * (k - 1) < j /\ j <= 2 * (k - 1) + 4 }
              IN  /\ stats.g_counts[k] = Occurrences(ExampleSequence, J, "G")
                  /\ stats.t_counts[k] = Occurrences(ExampleSequence, J, "T")

\* the example was computed
C9_Witness == OnExample /\ Returned /\ Len(stats.positions) = 3

(* ------------------------------- C10 ----------------------------------- *)

\* C10: in every run that reaches calculate_stats the converted bounds
\* satisfy 0 <= start_pos < end_pos <= N and the trimmed sequence has
\* end_pos - start_pos >= 1 symbols; a run on an empty loaded sequence ends
\* in a fatal error (the 'start must be less than end' one when no range
\* was given); and every reported position p satisfies
\* start_pos <= p < end_pos when W >= 1.
C10_PositionsInRange ==
    /\ calls > 0 =>
          /\ 0 <= start_pos /\ start_pos < end_pos /\ end_pos <= Len(Loaded)
          /\ Len(sequence) = end_pos - start_pos
          /\ Len(sequence) >= 1
    /\ (pc \notin { "parse_args", "check_file", "check_step", "read" }
        /\ file_exists /\ S <= W /\ Loaded = << >>) =>
          /\ calls = 0
          /\ Terminated => FatalError
          /\ (Terminated /\ ~StartGiven /\ ~EndGiven) =>
                stderr = << "start position must be less than end position" >>
    /\ (Adjusted /\ W >= 1) =>
          \A k \in 1..Len(positions) :
              start_pos <= positions[k] /\ positions[k] < end_pos

====
